---- MODULE Spec2Model ----
(***************************************************************************)
(* Release tracker of bot.py: the stored tracking state (data, the file    *)
(* bot_data.json), the commands that change it (set_announce_channel,      *)
(* track, untrack), and the background task check_releases with its        *)
(* suspension points (fetch_channel, fetch_latest_for_series, channel.send).*)
(***************************************************************************)
EXTENDS Integers, Sequences, FiniteSets, TLC

None == "None"

\* ------------------------------------------------------------------ bounds
\* Longest "data" array the index answers with in the model.
MaxResp == 3
\* Number of commands the operators issue in one run of the model.
MaxCmds == 3

\* ------------------------------------------------------------- small sets
\* bot.guilds, in iteration order
Guilds == <<"g1", "g2">>
GuildIds == {Guilds[i] : i \in 1..Len(Guilds)}
SeriesIds == {"s1", "s2", "s3"}
Channels == {"c1"}
\* (role, name) pairs given to !track
Registrations == {[role |-> "r1", name |-> "n1"], [role |-> "r2", name |-> "n2"]}

\* ------------------------------------------------------------- timestamps
\* A readableAt string: a wall clock reading and its zone suffix.
Zones == {"Z", "+00:00", "+02:00"}

ZoneHours(z) == IF z = "+02:00" THEN 2 ELSE 0

\* parse_iso: "Z" is rewritten to "+00:00", then datetime.fromisoformat; the
\* aware datetime is compared and ordered by its instant (clock - offset).
parse_iso(dt_str) ==
    LET s == IF dt_str.zone = "Z" THEN [dt_str EXCEPT !.zone = "+00:00"] ELSE dt_str
    IN  s.clock - ZoneHours(s.zone)

Ts(c, z) == [clock |-> c, zone |-> z]

\* Python's None where a timestamp string is expected
NoTs == [clock |-> 0, zone |-> None]

\* The entries the index holds in payload["data"] for each series (id,
\* attributes.chapter, attributes.readableAt); None and NoTs stand for a
\* missing or null field.
RawItems(series_id) ==
    IF series_id = "s1"
    THEN { [id |-> "b",  chapter |-> "2",  readableAt |-> Ts(4, "+02:00")],
           [id |-> "c",  chapter |-> None, readableAt |-> Ts(3, "Z")],
           [id |-> "d",  chapter |-> "4",  readableAt |-> Ts(3, "+00:00")],
           [id |-> "e",  chapter |-> "5",  readableAt |-> Ts(4, "Z")],
           [id |-> "x",  chapter |-> "6",  readableAt |-> NoTs],
           [id |-> None, chapter |-> "7",  readableAt |-> Ts(4, "+00:00")] }
    ELSE IF series_id = "s2"
    THEN { [id |-> "p",  chapter |-> "1",  readableAt |-> Ts(4, "+02:00")],
           [id |-> "q",  chapter |-> "2",  readableAt |-> Ts(3, "Z")] }
    ELSE { [id |-> "r",  chapter |-> "1",  readableAt |-> Ts(2, "Z")] }

\* ------------------------------------------------------------- sequences
RECURSIVE SeqsUpTo(_, _)
\* the sequences of distinct elements of S of length at most n
SeqsUpTo(S, n) ==
    IF n = 0 THEN {<<>>}
    ELSE LET shorter == SeqsUpTo(S, n - 1)
         IN  shorter \cup
             { Append(q, x) : <<q, x>> \in
                 { p \in shorter \X S :
                     Len(p[1]) = n - 1 /\ \A i \in 1..Len(p[1]) : p[1][i] # p[2] } }

\* What one GET /chapter?manga=<series_id> can answer, for every series.
AllResponses == [s \in SeriesIds |-> SeqsUpTo(RawItems(s), MaxResp)]

Responses(series_id) == AllResponses[series_id]

\* line 157 with reverse=True: newest first
Follows(x, y) == parse_iso(x.readableAt) >= parse_iso(y.readableAt)

\* list.sort(key=...): stable, ascending by key
Precedes(x, y) == parse_iso(x.readableAt) <= parse_iso(y.readableAt)

RECURSIVE InsertSorted(_, _)
InsertSorted(sorted, x) ==
    IF sorted = <<>> THEN <<x>>
    ELSE IF Precedes(Head(sorted), x)
         THEN <<Head(sorted)>> \o InsertSorted(Tail(sorted), x)
         ELSE <<x>> \o sorted

\* line 157 left out: the chapters in the order the index gave them
Unsorted(s) == s

RECURSIVE SortChapters(_)
SortChapters(s) ==
    IF s = <<>> THEN <<>>
    ELSE InsertSorted(SortChapters(SubSeq(s, 1, Len(s) - 1)), s[Len(s)])

\* the test of lines 138-145 without the comparison with the watermark
KeptWhateverItsDate(ch, since_ts) ==
    /\ ch.id # None
    /\ ch.readableAt # NoTs

\* the test of lines 138-145 with "<" where the code has "<="
KeptFromWatermarkOn(ch, since_ts) ==
    /\ ch.id # None
    /\ ch.readableAt # NoTs
    /\ ~(since_ts # NoTs /\ parse_iso(ch.readableAt) < parse_iso(since_ts))

\* the test of lines 138-145: is the entry kept
Kept(ch, since_ts) ==
    /\ ch.id # None
    /\ ch.readableAt # NoTs
    /\ ~(since_ts # NoTs /\ parse_iso(ch.readableAt) <= parse_iso(since_ts))

Chapter(ch) ==
    [id |-> ch.id,
     chapter |-> IF ch.chapter = None THEN "?" ELSE ch.chapter,
     readableAt |-> ch.readableAt]

RECURSIVE KeptChapters(_, _)
\* the loop of lines 133-154 over payload["data"]
KeptChapters(items, since_ts) ==
    IF items = <<>> THEN <<>>
    ELSE IF Kept(Head(items), since_ts)
         THEN <<Chapter(Head(items))>> \o KeptChapters(Tail(items), since_ts)
         ELSE KeptChapters(Tail(items), since_ts)

\* fetch_latest_for_series after the HTTP answer: filter, then sort
fetch_latest_for_series(items, since_ts) ==
    SortChapters(KeptChapters(items, since_ts))

\* -------------------------------------------------------------- the dicts
\* tracked_series is a dict in insertion order: a sequence of (key, object).
Keys(t) == {t[i].sid : i \in 1..Len(t)}

Ref(t, sid) == t[CHOOSE i \in 1..Len(t) : t[i].sid = sid].ref

\* tracked[sid] = ref: an existing key keeps its place, a new key goes last
Put(t, sid, ref) ==
    IF sid \in Keys(t)
    THEN [i \in 1..Len(t) |-> IF t[i].sid = sid THEN [sid |-> sid, ref |-> ref] ELSE t[i]]
    ELSE Append(t, [sid |-> sid, ref |-> ref])

\* tracked.pop(sid)
Pop(t, sid) == SelectSeq(t, LAMBDA e : e.sid # sid)

NoGuilds == [g \in {} |-> None]

NewGuild == [announce_channel_id |-> None, tracked_series |-> <<>>]

\* get_guild_data: the guild's entry is created on first use
get_guild_data(d, g) ==
    IF g \in DOMAIN d.guilds THEN d
    ELSE [guilds |-> [x \in DOMAIN d.guilds \cup {g} |->
                        IF x = g THEN NewGuild ELSE d.guilds[x]]]

\* ---------------------------------------------------------------- storage
\* JSON text holds null where Python holds None.
JNull == "null"

JNullTs == [clock |-> 0, zone |-> JNull]

\* json.dump of one tracked_series value {name, last_seen_ts, role_id}
DumpSeries(o) ==
    [name |-> o.name,
     last_seen_ts |-> IF o.last_seen_ts = NoTs THEN JNullTs ELSE o.last_seen_ts,
     role_id |-> o.role_id]

\* json.dump(d): the nested dicts written out by value
json_dump(d, h) ==
    [guilds |-> [g \in DOMAIN d.guilds |->
        LET gd == d.guilds[g]
            t  == gd.tracked_series
        IN  [announce_channel_id |->
                IF gd.announce_channel_id = None THEN JNull ELSE gd.announce_channel_id,
             tracked_series |->
                [i \in 1..Len(t) |-> [sid |-> t[i].sid, val |-> DumpSeries(h[t[i].ref])]]]]]

\* bot_data.json: missing, a complete document, or cut short by an
\* interrupted write (open(..., "w") truncates before json.dump writes)
NoFile == [kind |-> "absent", doc |-> [guilds |-> NoGuilds]]

Torn == [kind |-> "torn", doc |-> [guilds |-> NoGuilds]]

FileOf(d, h) == [kind |-> "file", doc |-> json_dump(d, h)]

RECURSIVE RefBase(_, _)
\* number of objects json.load built before it reaches guild Guilds[gi]
RefBase(doc, gi) ==
    IF gi <= 1 THEN 0
    ELSE RefBase(doc, gi - 1) +
         (IF Guilds[gi - 1] \in DOMAIN doc.guilds
          THEN Len(doc.guilds[Guilds[gi - 1]].tracked_series) ELSE 0)

GuildIndex(g) == CHOOSE i \in 1..Len(Guilds) : Guilds[i] = g

\* json.load of one tracked_series value with null read as the text "null"
LoadSeriesNullAsText(v) ==
    [name |-> v.name, last_seen_ts |-> v.last_seen_ts, role_id |-> v.role_id,
     delivered |-> {}]

\* json.load of one tracked_series value; delivered is bookkeeping of the
\* model (the chapter ids sent for this record), not a key of the dict
LoadSeries(v) ==
    [name |-> v.name,
     last_seen_ts |-> IF v.last_seen_ts = JNullTs THEN NoTs ELSE v.last_seen_ts,
     role_id |-> v.role_id,
     delivered |-> {}]

\* load_data on a complete document: the dicts of data
LoadedData(doc) ==
    [guilds |-> [g \in DOMAIN doc.guilds |->
        LET gd == doc.guilds[g]
            t  == gd.tracked_series
        IN  [announce_channel_id |->
                IF gd.announce_channel_id = JNull THEN None ELSE gd.announce_channel_id,
             tracked_series |->
                [i \in 1..Len(t) |->
                    [sid |-> t[i].sid, ref |-> RefBase(doc, GuildIndex(g)) + i]]]]]

\* load_data on a complete document: the series objects it built
LoadedHeap(doc) ==
    [r \in 1..RefBase(doc, Len(Guilds) + 1) |->
        LET gi == CHOOSE i \in 1..Len(Guilds) :
                     /\ Guilds[i] \in DOMAIN doc.guilds
                     /\ RefBase(doc, i) < r
                     /\ r <= RefBase(doc, i + 1)
        IN  LoadSeries(doc.guilds[Guilds[gi]].tracked_series[r - RefBase(doc, gi)].val)]

\* load_data: no file gives {"guilds": {}}
load_data(file) == IF file.kind = "absent" THEN [guilds |-> NoGuilds] ELSE LoadedData(file.doc)

load_heap(file) == IF file.kind = "absent" THEN <<>> ELSE LoadedHeap(file.doc)

\* ------------------------------------------------------------ the objects
\* heap holds the series dicts ({name, last_seen_ts, role_id}); data and the
\* loop's list(tracked.items()) hold references to them.  An object nothing
\* refers to is freed, and the references are numbered in the order data
\* and then the loop reach them.
RECURSIVE DataRefs(_, _)
DataRefs(d, gi) ==
    IF gi > Len(Guilds) THEN <<>>
    ELSE (IF Guilds[gi] \in DOMAIN d.guilds
          THEN LET t == d.guilds[Guilds[gi]].tracked_series
               IN  [i \in 1..Len(t) |-> t[i].ref]
          ELSE <<>>) \o DataRefs(d, gi + 1)

RECURSIVE Dedupe(_)
Dedupe(s) ==
    IF s = <<>> THEN <<>>
    ELSE LET init == Dedupe(SubSeq(s, 1, Len(s) - 1))
             x    == s[Len(s)]
         IN  IF \E i \in 1..Len(init) : init[i] = x THEN init ELSE Append(init, x)

LiveRefs(d, lp) == Dedupe(DataRefs(d, 1) \o [i \in 1..Len(lp.items) |-> lp.items[i].ref])

Renumber(t, live) ==
    [i \in 1..Len(t) |->
        [sid |-> t[i].sid, ref |-> CHOOSE n \in 1..Len(live) : live[n] = t[i].ref]]

Collect(st) ==
    LET live == LiveRefs(st.data, st.loop)
    IN  [st EXCEPT
            !.heap = [n \in 1..Len(live) |-> st.heap[live[n]]],
            !.data = [guilds |-> [g \in DOMAIN st.data.guilds |->
                        [st.data.guilds[g] EXCEPT
                            !.tracked_series = Renumber(@, live)]]],
            !.loop = [st.loop EXCEPT !.items = Renumber(@, live)]]

\* a reference no object has yet
NewRef(h) == Len(h) + 1

\* ------------------------------------------------------------------ state
VARIABLES
    up,      \* the process is running
    data,    \* the module-level dict data
    heap,    \* the series dicts data refers to
    disk,    \* bot_data.json
    ready,   \* the connection has signalled ready
    loop,    \* check_releases: where it is suspended, and its locals
    cycle,   \* record of the current iteration of check_releases
    batch,   \* record of the last batch of announcements of one series
    reply,   \* the last command and what it answered
    gone,    \* the (guild, series) pairs untracked and not tracked again
    ncmds,   \* commands issued so far
    sent_before, \* the (guild, series, chapter) sent by earlier runs of the process
    tasks    \* the check_releases tasks started and not over

vars == <<up, data, heap, disk, ready, loop, cycle, batch, reply, gone, ncmds, sent_before,
         tasks>>

\* how a save_data call can end: written; open() raises; the write raises
\* after open() truncated the file
SaveOutcomes == {"ok", "open_failed", "write_failed"}

IdleLoop ==
    [pc |-> "idle", gi |-> 0, channel |-> None, items |-> <<>>, last_seen_ts |-> NoTs,
     new_chapters |-> <<>>, k |-> 0, latest_ts_for_series |-> NoTs]

StoppedLoop == [IdleLoop EXCEPT !.pc = "stopped"]

\* cycle: the guilds the iteration reached, the series it listed, fetched and
\* primed, the series with a failed fetch or send, and whether save_data
\* raised
NoCycle ==
    [guilds |-> {}, listed |-> {}, fetched |-> {}, primed |-> {}, failed |-> {},
     aborted |-> FALSE]

\* batch: the series, the watermark the fetch was made with, and the sends
\* attempted in order, each [id, ts, ok]
NoBatch == [g |-> None, sid |-> None, since |-> NoTs, attempts |-> <<>>]

NoReply == [op |-> None, g |-> None, sid |-> None, res |-> None, saved |-> FALSE]

\* the values the handlers below work on, with the exception they end in
Cur == [data |-> data, heap |-> heap, disk |-> disk, loop |-> loop, cycle |-> cycle,
        batch |-> batch, exc |-> None]

\* save_data(data); "killed" is the process dying inside the call
save_data(st, so) ==
    IF so = "ok" THEN [st EXCEPT !.disk = FileOf(st.data, st.heap)]
    ELSE IF so = "open_failed" THEN [st EXCEPT !.exc = "OSError"]
    ELSE IF so = "write_failed" THEN [st EXCEPT !.disk = Torn, !.exc = "OSError"]
    ELSE [st EXCEPT !.disk = Torn, !.exc = "killed"]

\* the (guild, series, chapter) the records of st have as sent
SentBy(st) ==
    UNION {{<<g, st.data.guilds[g].tracked_series[i].sid, id>> :
              id \in st.heap[st.data.guilds[g].tracked_series[i].ref].delivered} :
           <<g, i>> \in {p \in (DOMAIN st.data.guilds) \X (1..Cardinality(SeriesIds)) :
                            p[2] <= Len(st.data.guilds[p[1]].tracked_series)}}
    \cup (IF st.loop.pc \in {"fetching", "sending"}
          THEN {<<Guilds[st.loop.gi], Head(st.loop.items).sid, id>> :
                  id \in st.heap[Head(st.loop.items).ref].delivered}
          ELSE {})

\* the handler is over: its effects become the state
Install(st) ==
    IF st.exc = "killed"
    THEN /\ up' = FALSE
         /\ sent_before' = sent_before \cup SentBy(st)
         /\ tasks' = 0
         /\ data' = [guilds |-> NoGuilds]
         /\ heap' = <<>>
         /\ disk' = st.disk
         /\ ready' = FALSE
         /\ loop' = StoppedLoop
         /\ cycle' = NoCycle
         /\ batch' = NoBatch
    ELSE LET c == Collect(st)
         IN  /\ up' = up
             /\ sent_before' = sent_before
             /\ tasks' = tasks
             /\ data' = c.data
             /\ heap' = c.heap
             /\ disk' = c.disk
             /\ ready' = ready
             /\ loop' = c.loop
             /\ cycle' = c.cycle
             /\ batch' = c.batch

\* -------------------------------------------------------- check_releases
CurGuild(st) == Guilds[st.loop.gi]

CurItem(st) == Head(st.loop.items)

CurKey(st) == <<CurGuild(st), CurItem(st).sid>>

\* save_data raised inside check_releases: nothing catches it there, the
\* iteration is over (tasks.loop catches OSError and runs the next
\* iteration after a back-off)
Raised(st) == [st EXCEPT !.loop = IdleLoop, !.cycle.aborted = TRUE]

RECURSIVE EnterGuilds(_, _)
\* lines 168-172: from guild number gi on, up to the first suspension
EnterGuilds(st, gi) ==
    IF gi > Len(Guilds) THEN [st EXCEPT !.loop = IdleLoop]
    ELSE LET g == Guilds[gi]
             d == get_guild_data(st.data, g)
             channel_id == d.guilds[g].announce_channel_id
             st1 == [st EXCEPT !.data = d, !.cycle.guilds = @ \cup {g}]
         IN  IF channel_id = None
             THEN EnterGuilds(st1, gi + 1)
             ELSE [st1 EXCEPT !.loop = [IdleLoop EXCEPT !.pc = "resolving", !.gi = gi,
                                                        !.channel = channel_id]]

\* lines 186-187 and the call of line 192 or 208: the locals of one item,
\* read before the fetch is awaited
BeginItem(st) ==
    [st EXCEPT !.loop.pc = "fetching",
               !.loop.last_seen_ts = st.heap[CurItem(st).ref].last_seen_ts,
               !.loop.new_chapters = <<>>,
               !.loop.k = 0,
               !.loop.latest_ts_for_series = NoTs]

\* lines 181-185: the channel is there; list(tracked.items())
AfterResolve(st) ==
    LET g == CurGuild(st)
        tracked == st.data.guilds[g].tracked_series
    IN  IF Len(tracked) = 0 THEN EnterGuilds(st, st.loop.gi + 1)
        ELSE BeginItem([st EXCEPT
                !.loop.items = tracked,
                !.cycle.listed = @ \cup {<<g, tracked[i].sid>> : i \in 1..Len(tracked)}])

\* line 243, after the last item of the guild
EndGuild(st, so) ==
    LET saved == save_data(st, so)
    IN  IF saved.exc # None THEN Raised(saved)
        ELSE EnterGuilds(saved, st.loop.gi + 1)

\* "continue", or the end of the body of the for loop over the items
NextItem(st, so) ==
    LET rest == Tail(st.loop.items)
    IN  IF Len(rest) > 0 THEN BeginItem([st EXCEPT !.loop.items = rest])
        ELSE EndGuild(st, so)

\* lines 199-200 and 241-242: the watermark goes into the object the loop
\* holds, and the object goes (back) into the guild's dict
StoreSeen(st, ts) ==
    LET it == CurItem(st)
    IN  [st EXCEPT !.heap[it.ref].last_seen_ts = ts,
                   !.data.guilds[CurGuild(st)].tracked_series = Put(@, it.sid, it.ref)]

\* lines 240-242
Commit(st) ==
    IF st.loop.latest_ts_for_series # NoTs
    THEN StoreSeen(st, st.loop.latest_ts_for_series)
    ELSE st

\* lines 197-204 with all_recent[0] where the code has all_recent[-1]
PrimeAtOldest(st, all_recent, so1, so2) ==
    IF Len(all_recent) > 0
    THEN LET latest == all_recent[1]
             stored == StoreSeen(st, latest.readableAt)
             saved == save_data([stored EXCEPT !.cycle.primed = @ \cup {CurKey(st)}], so1)
         IN  IF saved.exc # None THEN Raised(saved) ELSE NextItem(saved, so2)
    ELSE NextItem(st, so2)

\* lines 197-204: the first fetch of a series
Prime(st, all_recent, so1, so2) ==
    IF Len(all_recent) > 0
    THEN LET latest == all_recent[Len(all_recent)]
             stored == StoreSeen(st, latest.readableAt)
             saved == save_data([stored EXCEPT !.cycle.primed = @ \cup {CurKey(st)}], so1)
         IN  IF saved.exc # None THEN Raised(saved) ELSE NextItem(saved, so2)
    ELSE NextItem(st, so2)

\* lines 215-220: the chapters to announce, oldest first
Announce(st, new_chapters, so) ==
    IF Len(new_chapters) = 0 THEN NextItem(st, so)
    ELSE [st EXCEPT !.loop.pc = "sending",
                    !.loop.new_chapters = new_chapters,
                    !.loop.k = 1,
                    !.loop.latest_ts_for_series = st.loop.last_seen_ts,
                    !.batch = [g |-> CurGuild(st), sid |-> CurItem(st).sid,
                               since |-> st.loop.last_seen_ts, attempts |-> <<>>]]

\* fetch_latest_for_series returns (lines 190-220)
FetchReturned(st, items, so1, so2) ==
    LET fetched == [st EXCEPT !.cycle.fetched = @ \cup {CurKey(st)}]
    IN  IF st.loop.last_seen_ts = NoTs
        THEN Prime(fetched, fetch_latest_for_series(items, NoTs), so1, so2)
        ELSE Announce(fetched, fetch_latest_for_series(items, st.loop.last_seen_ts), so2)

\* lines 193-195, 211-213 with "return" where the code has "continue"
FetchRaisedEndsSweep(st, so) ==
    [st EXCEPT !.cycle.fetched = @ \cup {CurKey(st)},
               !.cycle.failed = @ \cup {CurKey(st)},
               !.loop = IdleLoop]

\* lines 193-195, 211-213 with the watermark reset before "continue"
FetchRaisedForgets(st, so) ==
    NextItem([st EXCEPT !.cycle.fetched = @ \cup {CurKey(st)},
                        !.cycle.failed = @ \cup {CurKey(st)},
                        !.heap[CurItem(st).ref].last_seen_ts = NoTs], so)

\* fetch_latest_for_series raises (lines 193-195, 211-213): continue
FetchRaised(st, so) ==
    NextItem([st EXCEPT !.cycle.fetched = @ \cup {CurKey(st)},
                        !.cycle.failed = @ \cup {CurKey(st)}], so)

Attempt(ch, ok) == [id |-> ch.id, ts |-> ch.readableAt, ok |-> ok]

\* channel.send returns (line 238), then the next chapter or lines 240-242
Sent(st, so) ==
    LET it == CurItem(st)
        ch == st.loop.new_chapters[st.loop.k]
        st1 == [st EXCEPT
                  !.batch.attempts = Append(@, Attempt(ch, TRUE)),
                  !.heap[it.ref].delivered = @ \cup {ch.id},
                  !.loop.latest_ts_for_series = ch.readableAt]
    IN  IF st.loop.k < Len(st.loop.new_chapters)
        THEN [st1 EXCEPT !.loop.k = @ + 1]
        ELSE NextItem(Commit(st1), so)

\* lines 231-236 with line 238 done for the chapter whose send raised
SendRaisedButSeen(st, so) ==
    LET ch == st.loop.new_chapters[st.loop.k]
        st1 == [st EXCEPT
                  !.batch.attempts = Append(@, Attempt(ch, FALSE)),
                  !.cycle.failed = @ \cup {CurKey(st)},
                  !.loop.latest_ts_for_series = ch.readableAt]
    IN  NextItem(Commit(st1), so)

\* channel.send raises (lines 231-236): break, then lines 240-242
SendRaised(st, so) ==
    LET ch == st.loop.new_chapters[st.loop.k]
        st1 == [st EXCEPT
                  !.batch.attempts = Append(@, Attempt(ch, FALSE)),
                  !.cycle.failed = @ \cup {CurKey(st)}]
    IN  NextItem(Commit(st1), so)

\* the outcomes of the save_data call an action may reach
IfSaving(saving, outcomes) == IF saving THEN outcomes ELSE {"ok"}

LastItem == Len(loop.items) = 1

\* on_ready without the test of line 258: every ready event starts a task
OnReadyStartsAnyway ==
    /\ up
    /\ ready' = TRUE
    /\ loop' = IF loop.pc = "stopped" THEN IdleLoop ELSE loop
    /\ tasks' = tasks + 1
    /\ UNCHANGED <<up, data, heap, disk, cycle, batch, reply, gone, ncmds, sent_before>>

\* on_ready: starts the task unless it is running
on_ready ==
    /\ up
    /\ ready' = TRUE
    /\ loop' = IF loop.pc = "stopped" THEN IdleLoop ELSE loop
    /\ tasks' = IF loop.pc = "stopped" THEN tasks + 1 ELSE tasks
    /\ UNCHANGED <<up, data, heap, disk, cycle, batch, reply, gone, ncmds, sent_before>>

\* one iteration of check_releases begins (lines 165-172)
StartCycle ==
    /\ up /\ ready /\ loop.pc = "idle"
    /\ Install(EnterGuilds([Cur EXCEPT !.cycle = NoCycle, !.batch = NoBatch], 1))
    /\ UNCHANGED <<reply, gone, ncmds>>

\* lines 174-177: get_channel or fetch_channel gives the channel
ResolveOk ==
    /\ up /\ loop.pc = "resolving"
    /\ Install(AfterResolve(Cur))
    /\ UNCHANGED <<reply, gone, ncmds>>

\* lines 178-179: fetch_channel raises
ResolveFail ==
    /\ up /\ loop.pc = "resolving"
    /\ Install(EnterGuilds(Cur, loop.gi + 1))
    /\ UNCHANGED <<reply, gone, ncmds>>

\* the awaited fetch_latest_for_series returns items
FetchStep(items, so1, so2) ==
    /\ Install(FetchReturned(Cur, items, so1, so2))
    /\ UNCHANGED <<reply, gone, ncmds>>

FetchOk(outcomes) ==
    /\ up /\ loop.pc = "fetching"
    /\ \E items \in Responses(CurItem(Cur).sid),
          so1 \in IfSaving(loop.last_seen_ts = NoTs, outcomes),
          so2 \in IfSaving(LastItem, outcomes) :
            FetchStep(items, so1, so2)

FetchFail(outcomes) ==
    /\ up /\ loop.pc = "fetching"
    /\ \E so \in IfSaving(LastItem, outcomes) : Install(FetchRaised(Cur, so))
    /\ UNCHANGED <<reply, gone, ncmds>>

SendOk(outcomes) ==
    /\ up /\ loop.pc = "sending"
    /\ \E so \in IfSaving(LastItem /\ loop.k = Len(loop.new_chapters), outcomes) :
            Install(Sent(Cur, so))
    /\ UNCHANGED <<reply, gone, ncmds>>

SendFail(outcomes) ==
    /\ up /\ loop.pc = "sending"
    /\ \E so \in IfSaving(LastItem, outcomes) : Install(SendRaised(Cur, so))
    /\ UNCHANGED <<reply, gone, ncmds>>

\* --------------------------------------------------------------- commands
\* What is typed after !track or !untrack: the "/"-separated parts of the
\* argument, each with what extract_mangadex_id looks at.
Part(text, dash, long) == [text |-> text, dash |-> dash, long |-> long]

RawArg(sid) == <<Part(sid, TRUE, TRUE)>>

UrlArg(sid) ==
    <<Part("https:", FALSE, FALSE), Part("", FALSE, FALSE),
      Part("mangadex.org", FALSE, TRUE), Part("title", FALSE, FALSE),
      Part(sid, TRUE, TRUE), Part("name-of-series", TRUE, TRUE)>>

SeriesArgs(series) == {RawArg(s) : s \in series} \cup {UrlArg(s) : s \in series}

\* extract_mangadex_id: of a mangadex.org URL the first part with a "-" and
\* 8 characters or more, else the argument as it is
extract_mangadex_id(series_arg) ==
    LET hits == {i \in 1..Len(series_arg) : series_arg[i].dash /\ series_arg[i].long}
    IN  IF (\E i \in 1..Len(series_arg) : series_arg[i].text = "mangadex.org") /\ hits # {}
        THEN series_arg[CHOOSE i \in hits : \A j \in hits : i <= j].text
        ELSE series_arg[1].text

Answer(op, g, sid, res, saved) ==
    [op |-> op, g |-> g, sid |-> sid, res |-> res, saved |-> saved]

\* lines 267-268, 320-321, 339-340 with ctx.send in a "finally": the
\* command answers also when save_data raised
AnswersWhateverSave(st, op, g, sid) ==
    IF st.exc = "killed" THEN NoReply
    ELSE Answer(op, g, sid, "ok", TRUE)

\* the reply of a command that reached save_data: ctx.send comes after it,
\* and an exception of save_data ends the command without it
AfterSave(st, op, g, sid) ==
    IF st.exc = "killed" THEN NoReply
    ELSE Answer(op, g, sid, IF st.exc = None THEN "ok" ELSE "error", TRUE)

\* !set_announce_channel (lines 264-268)
set_announce_channel(g, channel, so) ==
    /\ up /\ ncmds < MaxCmds
    /\ LET gdata == get_guild_data(data, g)
           st == save_data([Cur EXCEPT !.data =
                    [gdata EXCEPT !.guilds[g].announce_channel_id = channel]], so)
       IN  /\ Install(st)
           /\ reply' = AfterSave(st, "set_announce_channel", g, None)
    /\ ncmds' = ncmds + 1
    /\ UNCHANGED gone

\* !track without the test of lines 308-310: the series is registered again
TrackOverwrites(g, series_arg, reg, so) ==
    /\ up /\ ncmds < MaxCmds
    /\ LET series_id == extract_mangadex_id(series_arg)
           gdata == get_guild_data(data, g)
           st == save_data([Cur EXCEPT
                    !.heap = Append(@, [name |-> reg.name, last_seen_ts |-> NoTs,
                                        role_id |-> reg.role, delivered |-> {}]),
                    !.data = [gdata EXCEPT !.guilds[g].tracked_series =
                                Put(@, series_id, NewRef(heap))]], so)
       IN  /\ Install(st)
           /\ reply' = AfterSave(st, "track", g, series_id)
           /\ gone' = IF st.exc = None THEN gone \ {<<g, series_id>>} ELSE gone
    /\ ncmds' = ncmds + 1

\* !track (lines 303-323)
track_series(g, series_arg, reg, so) ==
    /\ up /\ ncmds < MaxCmds
    /\ LET series_id == extract_mangadex_id(series_arg)
           gdata == get_guild_data(data, g)
           tracked == gdata.guilds[g].tracked_series
       IN  IF series_id \in Keys(tracked)
           THEN /\ Install([Cur EXCEPT !.data = gdata])
                /\ reply' = Answer("track", g, series_id, "AlreadyTracked", FALSE)
                /\ UNCHANGED gone
           ELSE LET st == save_data([Cur EXCEPT
                            !.heap = Append(@, [name |-> reg.name, last_seen_ts |-> NoTs,
                                                role_id |-> reg.role, delivered |-> {}]),
                            !.data = [gdata EXCEPT !.guilds[g].tracked_series =
                                        Put(@, series_id, NewRef(heap))]], so)
                IN  /\ Install(st)
                    /\ reply' = AfterSave(st, "track", g, series_id)
                    /\ gone' = IF st.exc = None THEN gone \ {<<g, series_id>>} ELSE gone
    /\ ncmds' = ncmds + 1

\* !untrack (lines 329-340)
untrack_series(g, series_arg, so) ==
    /\ up /\ ncmds < MaxCmds
    /\ LET series_id == extract_mangadex_id(series_arg)
           gdata == get_guild_data(data, g)
           tracked == gdata.guilds[g].tracked_series
       IN  IF series_id \notin Keys(tracked)
           THEN /\ Install([Cur EXCEPT !.data = gdata])
                /\ reply' = Answer("untrack", g, series_id, "NotTracked", FALSE)
                /\ UNCHANGED gone
           ELSE LET st == save_data([Cur EXCEPT
                            !.data = [gdata EXCEPT !.guilds[g].tracked_series =
                                        Pop(@, series_id)]], so)
                IN  /\ Install(st)
                    /\ reply' = AfterSave(st, "untrack", g, series_id)
                    /\ gone' = IF st.exc = None THEN gone \cup {<<g, series_id>>} ELSE gone
    /\ ncmds' = ncmds + 1

\* ------------------------------------------------------ crash and restart
\* the process is killed between two handlers
Crash ==
    /\ up
    /\ Install([Cur EXCEPT !.exc = "killed"])
    /\ reply' = NoReply
    /\ UNCHANGED <<gone, ncmds>>

\* the process starts: line 35, data = load_data(); json.load raises on a
\* file cut short and the process does not come up
Restart ==
    /\ ~up
    /\ disk.kind # "torn"
    /\ up' = TRUE
    /\ data' = load_data(disk)
    /\ heap' = load_heap(disk)
    /\ UNCHANGED <<disk, ready, loop, cycle, batch, reply, gone, ncmds, sent_before, tasks>>

\* ---------------------------------------------------------- specification
\* bot_data.json as an earlier run can have left it: two guilds with a
\* channel, a primed and an unprimed series in the first, a primed one in
\* the second
SeenFile ==
    [kind |-> "file",
     doc |-> [guilds |->
        [g \in GuildIds |->
            [announce_channel_id |-> "c1",
             tracked_series |->
                IF g = "g1"
                THEN <<[sid |-> "s1", val |-> [name |-> "n1", last_seen_ts |-> Ts(1, "Z"),
                                              role_id |-> "r1"]],
                       [sid |-> "s2", val |-> [name |-> "n2", last_seen_ts |-> JNullTs,
                                              role_id |-> "r2"]]>>
                ELSE <<[sid |-> "s2", val |-> [name |-> "n2", last_seen_ts |-> Ts(1, "Z"),
                                              role_id |-> "r2"]]>>]]]]

\* the same for one guild with one primed series
SmallFile ==
    [kind |-> "file",
     doc |-> [guilds |->
        [g \in {"g1"} |->
            [announce_channel_id |-> "c1",
             tracked_series |->
                <<[sid |-> "s2", val |-> [name |-> "n1", last_seen_ts |-> Ts(1, "Z"),
                                         role_id |-> "r1"]]>>]]]]

\* two guilds with a channel: an unprimed and a primed series in the first,
\* a primed one in the second
PairFile ==
    [kind |-> "file",
     doc |-> [guilds |->
        [g \in GuildIds |->
            [announce_channel_id |-> "c1",
             tracked_series |->
                IF g = "g1"
                THEN <<[sid |-> "s2", val |-> [name |-> "n2", last_seen_ts |-> JNullTs,
                                              role_id |-> "r2"]],
                       [sid |-> "s3", val |-> [name |-> "n1", last_seen_ts |-> Ts(1, "Z"),
                                              role_id |-> "r1"]]>>
                ELSE <<[sid |-> "s3", val |-> [name |-> "n1", last_seen_ts |-> Ts(1, "Z"),
                                              role_id |-> "r1"]]>>]]]]

\* two guilds with a channel and one primed series each
QuietFile ==
    [kind |-> "file",
     doc |-> [guilds |->
        [g \in GuildIds |->
            [announce_channel_id |-> "c1",
             tracked_series |->
                IF g = "g1"
                THEN <<[sid |-> "s1", val |-> [name |-> "n1", last_seen_ts |-> Ts(1, "Z"),
                                              role_id |-> "r1"]]>>
                ELSE <<[sid |-> "s3", val |-> [name |-> "n2", last_seen_ts |-> Ts(1, "Z"),
                                              role_id |-> "r2"]]>>]]]]

\* two guilds with a channel and one primed series each, the first with
\* two chapters to come
RestartFile ==
    [kind |-> "file",
     doc |-> [guilds |->
        [g \in GuildIds |->
            [announce_channel_id |-> "c1",
             tracked_series |->
                IF g = "g1"
                THEN <<[sid |-> "s2", val |-> [name |-> "n1", last_seen_ts |-> Ts(1, "Z"),
                                              role_id |-> "r1"]]>>
                ELSE <<[sid |-> "s3", val |-> [name |-> "n2", last_seen_ts |-> Ts(1, "Z"),
                                              role_id |-> "r2"]]>>]]]]

\* the process has started on one of files: line 35
InitFrom(files) ==
    /\ up = TRUE
    /\ disk \in files
    /\ data = load_data(disk)
    /\ heap = load_heap(disk)
    /\ ready = FALSE
    /\ loop = StoppedLoop
    /\ cycle = NoCycle
    /\ batch = NoBatch
    /\ reply = NoReply
    /\ gone = {}
    /\ ncmds = 0
    /\ sent_before = {}
    /\ tasks = 0

Poll(outcomes) ==
    \/ StartCycle
    \/ ResolveOk
    \/ ResolveFail
    \/ FetchOk(outcomes)
    \/ FetchFail(outcomes)
    \/ SendOk(outcomes)
    \/ SendFail(outcomes)

\* the commands typed in guilds about series
Commands(outcomes, guilds, series) ==
    \/ \E g \in guilds, c \in Channels, so \in outcomes : set_announce_channel(g, c, so)
    \/ \E g \in guilds, a \in SeriesArgs(series), reg \in Registrations, so \in outcomes :
            track_series(g, a, reg, so)
    \/ \E g \in guilds, a \in SeriesArgs(series), so \in outcomes : untrack_series(g, a, so)

\* The sweep of check_releases over two guilds and three series, with
\* fetches and sends that fail; no command arrives and every save succeeds.
Init == InitFrom({SeenFile})

Next ==
    \/ on_ready
    \/ Poll({"ok"})

Spec == Init /\ [][Next]_vars

\* Commands arriving while check_releases runs: one guild, one series.
InitCmds == InitFrom({NoFile, SmallFile})

NextCmds ==
    \/ on_ready
    \/ Poll({"ok"})
    \/ Commands({"ok"}, {"g1"}, {"s2", "s3"})

SpecCmds == InitCmds /\ [][NextCmds]_vars

\* Saves that fail while check_releases sweeps two guilds.
InitStore == InitFrom({PairFile})

NextStore ==
    \/ on_ready
    \/ Poll(SaveOutcomes)

SpecStore == InitStore /\ [][NextStore]_vars

\* The process killed at any point, also inside save_data; commands
\* arrive for one guild and one series.
InitCrash == InitFrom({NoFile, SmallFile})

NextCrash ==
    \/ on_ready
    \/ Poll(SaveOutcomes \cup {"killed"})
    \/ Commands(SaveOutcomes \cup {"killed"}, {"g1"}, {"s2"})
    \/ Crash

SpecCrash == InitCrash /\ [][NextCrash]_vars

\* The process killed at any point of the sweep over two guilds, also
\* inside save_data, and started again.
InitRestart == InitFrom({RestartFile})

NextRestart ==
    \/ on_ready
    \/ Poll(SaveOutcomes \cup {"killed"})
    \/ Crash
    \/ Restart

SpecRestart == InitRestart /\ [][NextRestart]_vars

\* A sweep in which no fetch and no send fails.
InitQuiet == InitFrom({QuietFile})

NextQuiet ==
    \/ on_ready
    \/ StartCycle
    \/ ResolveOk
    \/ ResolveFail
    \/ FetchOk({"ok"})
    \/ SendOk({"ok"})

SpecQuiet == InitQuiet /\ [][NextQuiet]_vars

\* ----------------------------------------------------------------- claims
\* the series tracked in guild g
Tracked(g) == IF g \in DOMAIN data.guilds THEN Keys(data.guilds[g].tracked_series) ELSE {}

\* the record of series sid in guild g
Series(g, sid) == heap[Ref(data.guilds[g].tracked_series, sid)]

\* its watermark
Seen(g, sid) == Series(g, sid).last_seen_ts

\* the entries of an answer of the index that have an id and a readableAt
Usable(items) == {i \in 1..Len(items) : items[i].id # None /\ items[i].readableAt # NoTs}

\* C1: while a series stays tracked in a guild, no step replaces its
\* watermark by an earlier one, and a watermark that is set stays set.
WatermarkNeverGoesBack ==
    [][\A g \in GuildIds, sid \in SeriesIds :
          (sid \in Tracked(g) /\ sid \in Tracked(g)' /\ Seen(g, sid) # NoTs)
          => /\ Seen(g, sid)' # NoTs
             /\ parse_iso(Seen(g, sid)') >= parse_iso(Seen(g, sid))]_vars

\* C1 witness: a batch was announced while commands arrived, and the
\* watermark of its series is now later than the one the batch started from
WatermarkAdvanced ==
    /\ batch.sid # None
    /\ ncmds > 0
    /\ batch.sid \in Tracked(batch.g)
    /\ cycle.failed # {}
    /\ parse_iso(Seen(batch.g, batch.sid)) > parse_iso(batch.since)

\* C2: when the fetch of a series without watermark returns at least one
\* usable entry, the watermark becomes the latest readableAt among them
\* and nothing is sent for the series in that iteration.
PrimingSendsNothing ==
    [][/\ \A g \in GuildIds, sid \in SeriesIds :
            (/\ up /\ loop.pc = "fetching" /\ loop.last_seen_ts = NoTs
             /\ <<g, sid>> = CurKey(Cur))
            => \A items \in Responses(sid) :
                  (Usable(items) # {} /\ FetchStep(items, "ok", "ok"))
                  => /\ \A i \in Usable(items) :
                          parse_iso(Seen(g, sid)') >= parse_iso(items[i].readableAt)
                     /\ \E i \in Usable(items) : Seen(g, sid)' = items[i].readableAt
                     /\ batch' = batch
                     /\ <<g, sid>> \in cycle'.primed
       /\ (<<batch.g, batch.sid>> \notin cycle.primed)']_vars

\* C2 witness: s2 of g1 was primed in this iteration, at the later of its
\* two chapters
PrimedAtNewest ==
    /\ <<"g1", "s2">> \in cycle.primed
    /\ Seen("g1", "s2") = Ts(3, "Z")

\* C3: the sends of one batch are in non-decreasing readableAt order.
SendsInDateOrder ==
    \A i, j \in 1..Len(batch.attempts) :
        i < j => parse_iso(batch.attempts[i].ts) <= parse_iso(batch.attempts[j].ts)

\* C3 witness: two chapters sent, the earlier one with the later wall clock
\* reading (its zone is +02:00)
SentAcrossZones ==
    /\ Len(batch.attempts) >= 2
    /\ batch.attempts[1].ok /\ batch.attempts[2].ok
    /\ batch.attempts[1].ts.clock > batch.attempts[2].ts.clock

\* the ids of the usable entries of an answer that are later than since_ts
Later(items, since_ts) ==
    {items[i].id : i \in {j \in Usable(items) :
                            parse_iso(items[j].readableAt) > parse_iso(since_ts)}}

\* C4: when no fetch and no send fails and the process keeps running, a
\* fetch for a series with a watermark queues exactly the usable entries
\* later than the watermark, each once; every queued chapter is sent, none
\* was sent for the series before, and when the last one is sent the
\* watermark is its readableAt, the latest of the batch.
EachNewChapterSentOnce ==
    [][\A g \in GuildIds, sid \in SeriesIds :
        /\ (/\ up /\ loop.pc = "fetching" /\ loop.last_seen_ts # NoTs
            /\ <<g, sid>> = CurKey(Cur))
           => \A items \in Responses(sid) :
                FetchStep(items, "ok", "ok")
                => IF Later(items, loop.last_seen_ts) = {}
                   THEN batch' = batch /\ Seen(g, sid)' = Seen(g, sid)
                   ELSE /\ loop'.pc = "sending" /\ loop'.k = 1
                        /\ batch' = [g |-> g, sid |-> sid, since |-> loop.last_seen_ts,
                                     attempts |-> <<>>]
                        /\ {loop'.new_chapters[i].id : i \in 1..Len(loop'.new_chapters)}
                              = Later(items, loop.last_seen_ts)
                        /\ Len(loop'.new_chapters)
                              = Cardinality(Later(items, loop.last_seen_ts))
        /\ (up /\ loop.pc = "sending" /\ <<g, sid>> = CurKey(Cur) /\ loop' # loop)
           => /\ loop.new_chapters[loop.k].id \notin Series(g, sid).delivered
              /\ batch'.attempts =
                    Append(batch.attempts, Attempt(loop.new_chapters[loop.k], TRUE))
              /\ Series(g, sid)'.delivered =
                    Series(g, sid).delivered \cup {loop.new_chapters[loop.k].id}
              /\ IF loop.k < Len(loop.new_chapters)
                 THEN loop'.pc = "sending" /\ loop'.k = loop.k + 1
                      /\ loop'.new_chapters = loop.new_chapters
                 ELSE /\ Seen(g, sid)' = loop.new_chapters[loop.k].readableAt
                      /\ \A i \in 1..Len(batch'.attempts) :
                            parse_iso(batch'.attempts[i].ts) <= parse_iso(Seen(g, sid)')]_vars

\* C4 witness: chapter b of s1 was sent in one iteration and chapter e in a
\* later one, which started from the watermark b had left
SentInTwoCycles ==
    /\ "s1" \in Tracked("g1")
    /\ Series("g1", "s1").delivered = {"b", "e"}
    /\ batch = [g |-> "g1", sid |-> "s1", since |-> Ts(4, "+02:00"),
                attempts |-> <<[id |-> "e", ts |-> Ts(4, "Z"), ok |-> TRUE]>>]
    /\ Seen("g1", "s1") = Ts(4, "Z")

\* the successful sends of a batch, as indices into its attempts
Delivered(attempts) == {i \in 1..Len(attempts) : attempts[i].ok}

\* C5: when a send raises, the loop leaves the series (no later chapter of
\* the batch is tried), the watermark is the readableAt of the last
\* chapter sent before, or the one the batch started from when none was
\* sent, and the chapters recorded as sent are the same as before.
FailedSendEndsBatch ==
    [][/\ \A g \in GuildIds, sid \in SeriesIds :
            (/\ up /\ loop.pc = "sending" /\ <<g, sid>> = CurKey(Cur)
             /\ <<g, sid>> \in cycle'.failed)
            => /\ batch'.attempts =
                     Append(batch.attempts, Attempt(loop.new_chapters[loop.k], FALSE))
               /\ loop'.pc # "sending"
               /\ Seen(g, sid)' =
                     IF Delivered(batch.attempts) = {} THEN batch.since
                     ELSE batch.attempts[Len(batch.attempts)].ts
               /\ Series(g, sid)'.delivered = Series(g, sid).delivered
               /\ loop.new_chapters[loop.k].id \notin Series(g, sid)'.delivered
       /\ \A i \in 1..Len(batch'.attempts) :
            ~batch'.attempts[i].ok => i = Len(batch'.attempts)]_vars

\* C5 witness: the first chapter of a batch was sent, the send of the
\* second raised, and the watermark is the readableAt of the first
StoppedAfterFirst ==
    /\ Len(batch.attempts) = 2
    /\ batch.attempts[1].ok /\ ~batch.attempts[2].ok
    /\ Seen(batch.g, batch.sid) = batch.attempts[1].ts
    /\ parse_iso(batch.attempts[2].ts) > parse_iso(batch.attempts[1].ts)

\* C6: a series untracked with success, and not tracked with success
\* since, is not among the tracked series of the guild, and no
\* announcement of it is sent.
UntrackedStaysAway ==
    [][\A g \in GuildIds, sid \in SeriesIds :
          <<g, sid>> \in gone'
          => /\ sid \notin Tracked(g)'
             /\ ~(/\ batch'.g = g /\ batch'.sid = sid
                  /\ batch'.attempts # batch.attempts
                  /\ batch'.attempts # <<>>
                  /\ batch'.attempts[Len(batch'.attempts)].ok)]_vars

\* C7: !track of a series the guild tracks answers "already tracked",
\* leaves the record of the series and the file as they are and does not
\* call save_data; !track succeeds only for a series the guild does not
\* track and leaves it tracked, and a series stops being tracked only by
\* !untrack, so that of two !track of one series at most one succeeds.
SecondTrackRejected ==
    [][\A g \in GuildIds, sid \in SeriesIds :
        /\ (ncmds' = ncmds + 1 /\ reply' = Answer("track", g, sid, reply'.res, reply'.saved))
           => IF sid \in Tracked(g)
              THEN /\ reply'.res = "AlreadyTracked" /\ ~reply'.saved
                   /\ disk' = disk
                   /\ sid \in Tracked(g)'
                   /\ Series(g, sid)' = Series(g, sid)
              ELSE /\ reply'.res = "ok" /\ reply'.saved
                   /\ sid \in Tracked(g)'
                   /\ Seen(g, sid)' = NoTs
        /\ (sid \in Tracked(g) /\ sid \notin Tracked(g)')
           => (ncmds' = ncmds + 1 /\ reply' = Answer("untrack", g, sid, "ok", TRUE))]_vars

\* C7 witness: !track was refused for a series that has a watermark
TrackRefused ==
    /\ reply.op = "track" /\ reply.res = "AlreadyTracked"
    /\ reply.sid \in Tracked(reply.g)
    /\ Seen(reply.g, reply.sid) # NoTs

\* the guilds after number gi that have an announce channel
LaterGuilds(gi) ==
    {i \in (gi + 1)..Len(Guilds) :
        /\ Guilds[i] \in DOMAIN data.guilds
        /\ data.guilds[Guilds[i]].announce_channel_id # None}

\* C8: after a fetch or a send that raised, the loop goes on with the next
\* series of the guild, or after the last one with the next guild that has
\* an announce channel; when the iteration is over, every guild was
\* reached and every series listed had its fetch.
FailureDoesNotEndSweep ==
    [][/\ \A g \in GuildIds, sid \in SeriesIds :
            (/\ up /\ loop.pc \in {"fetching", "sending"} /\ <<g, sid>> = CurKey(Cur)
             /\ <<g, sid>> \in cycle'.failed)
            => IF Len(loop.items) > 1
               THEN /\ loop'.pc = "fetching" /\ loop'.gi = loop.gi
                    /\ [i \in 1..Len(loop'.items) |-> loop'.items[i].sid]
                          = [i \in 1..(Len(loop.items) - 1) |-> loop.items[i + 1].sid]
               ELSE IF LaterGuilds(loop.gi) = {}
                    THEN loop'.pc = "idle" /\ cycle'.guilds = GuildIds
                    ELSE /\ loop'.pc = "resolving"
                         /\ loop'.gi \in LaterGuilds(loop.gi)
                         /\ \A i \in LaterGuilds(loop.gi) : loop'.gi <= i
       /\ (loop'.pc = "idle" /\ cycle' # NoCycle)
          => (cycle'.guilds = GuildIds /\ cycle'.listed \subseteq cycle'.fetched)]_vars

\* C8 witness: the iteration is over; the fetch or a send of s1 raised in
\* g1, and s2 of g1 and s2 of g2 had their fetch after it
SweptPastFailure ==
    /\ loop.pc = "idle"
    /\ <<"g1", "s1">> \in cycle.failed
    /\ {<<"g1", "s2">>, <<"g2", "s2">>} \subseteq cycle.fetched

\* C9: a save_data that raises inside check_releases does not end the
\* iteration: when the iteration is over, every guild was reached and every
\* series listed had its fetch.
SweepSurvivesFailedSave ==
    (loop.pc = "idle" /\ cycle.aborted)
    => (cycle.guilds = GuildIds /\ cycle.listed \subseteq cycle.fetched)

\* C10: bot_data.json is at every point absent or a complete document, also
\* when save_data raised or the process died inside it.
SaveIsAtomic == disk.kind \in {"absent", "file"}

\* the series of guild g in a document of bot_data.json, with their values
Stored(doc, g) ==
    IF g \in DOMAIN doc.guilds
    THEN {<<doc.guilds[g].tracked_series[i].sid, doc.guilds[g].tracked_series[i].val>> :
            i \in 1..Len(doc.guilds[g].tracked_series)}
    ELSE {}

\* C11: when a command that changes the registry answers with success,
\* bot_data.json is complete and holds the change: the channel set, the
\* series tracked with its name, role and no watermark, or the series gone;
\* what load_data reads from it has the change too.
RepliedMeansSaved ==
    [][(ncmds' = ncmds + 1 /\ reply'.res = "ok")
       => /\ disk'.kind = "file"
          /\ reply'.g \in DOMAIN disk'.doc.guilds
          /\ reply'.g \in DOMAIN load_data(disk').guilds
          /\ reply'.op = "set_announce_channel"
             => /\ disk'.doc.guilds[reply'.g].announce_channel_id
                      = data'.guilds[reply'.g].announce_channel_id
                /\ load_data(disk').guilds[reply'.g].announce_channel_id \in Channels
          /\ reply'.op = "track"
             => /\ \E reg \in Registrations :
                      <<reply'.sid, [name |-> reg.name, last_seen_ts |-> JNullTs,
                                     role_id |-> reg.role]>>
                         \in Stored(disk'.doc, reply'.g)
                /\ reply'.sid \in Keys(load_data(disk').guilds[reply'.g].tracked_series)
          /\ reply'.op = "untrack"
             => /\ \A e \in Stored(disk'.doc, reply'.g) : e[1] # reply'.sid
                /\ reply'.sid \notin Keys(load_data(disk').guilds[reply'.g].tracked_series)]_vars

\* C11 witness: !track answered with success after an earlier command,
\* and the file holds the series without watermark
TrackedAndOnDisk ==
    /\ reply.op = "track" /\ reply.res = "ok"
    /\ ncmds >= 2
    /\ disk.kind = "file"
    /\ \E e \in Stored(disk.doc, reply.g) : e[1] = reply.sid /\ e[2].last_seen_ts = JNullTs

\* C12: a step of check_releases leaves the name and the role of every
\* series that stays tracked as the last !track of it gave them; it changes
\* the watermark only.
SweepKeepsRegistration ==
    [][\A g \in GuildIds, sid \in SeriesIds :
          (ncmds' = ncmds /\ sid \in Tracked(g) /\ sid \in Tracked(g)')
          => /\ Series(g, sid)'.name = Series(g, sid).name
             /\ Series(g, sid)'.role_id = Series(g, sid).role_id]_vars

\* the answers of the index with three usable entries, all later than
\* since_ts and no two of the same instant, that are not in ascending order
ThreeOutOfOrder(sid, since_ts) ==
    {items \in Responses(sid) :
        /\ Len(items) = 3 /\ Usable(items) = 1..3
        /\ \A i \in 1..3 : parse_iso(items[i].readableAt) > parse_iso(since_ts)
        /\ \A i, j \in 1..3 :
              i # j => parse_iso(items[i].readableAt) # parse_iso(items[j].readableAt)
        /\ \E i \in 1..2 :
              parse_iso(items[i].readableAt) > parse_iso(items[i + 1].readableAt)}

\* the three sends of a batch were of chapters of three different instants
ThreeSent ==
    /\ Len(batch.attempts) = 3
    /\ \A i \in 1..3 : batch.attempts[i].ok
    /\ \A i, j \in 1..3 :
          i # j => parse_iso(batch.attempts[i].ts) # parse_iso(batch.attempts[j].ts)

\* C13 as the spec words it: of three chapters with readableAt
\* t3 > t1 > t2 > W, the one of t1 is sent first, then t2, then t3.
SentMiddleFirst ==
    ThreeSent
    => /\ parse_iso(batch.attempts[3].ts) > parse_iso(batch.attempts[1].ts)
       /\ parse_iso(batch.attempts[1].ts) > parse_iso(batch.attempts[2].ts)

\* C13 amended: three chapters with readableAt t3 > t1 > t2 > W that the
\* index returns out of order are queued, and sent, oldest first: t2, t1, t3.
SentOldestFirst ==
    [][/\ \A g \in GuildIds, sid \in SeriesIds :
            (/\ up /\ loop.pc = "fetching" /\ loop.last_seen_ts # NoTs
             /\ <<g, sid>> = CurKey(Cur))
            => \A items \in ThreeOutOfOrder(sid, loop.last_seen_ts) :
                  FetchStep(items, "ok", "ok")
                  => /\ Len(loop'.new_chapters) = 3
                     /\ {loop'.new_chapters[i].id : i \in 1..3} = {items[i].id : i \in 1..3}
                     /\ \A i \in 1..2 :
                           parse_iso(loop'.new_chapters[i].readableAt)
                              < parse_iso(loop'.new_chapters[i + 1].readableAt)
       /\ (loop'.pc = "sending"
           => \A i \in 1..Len(batch'.attempts) :
                 batch'.attempts[i].id = loop'.new_chapters[i].id)
       /\ ThreeSent'
          => /\ parse_iso(batch'.attempts[1].ts) < parse_iso(batch'.attempts[2].ts)
             /\ parse_iso(batch'.attempts[2].ts) < parse_iso(batch'.attempts[3].ts)]_vars

\* C13 witness: b, d and e of s1 were sent in this order; b has the latest
\* wall clock reading of the three and the earliest instant
ThreeSentOldestFirst ==
    /\ ThreeSent
    /\ batch.since = Ts(1, "Z")
    /\ [i \in 1..3 |-> batch.attempts[i].id] = <<"b", "d", "e">>

\* the chapter ids of RawItems in the order of their strings
IdsInOrder == <<"b", "c", "d", "e", "p", "q", "r", "x">>

\* a < b on two chapter ids
LexLess(a, b) ==
    \E i, j \in 1..Len(IdsInOrder) : i < j /\ IdsInOrder[i] = a /\ IdsInOrder[j] = b

\* C14: the chapters to announce are the usable entries later than the
\* watermark in ascending readableAt order, two of the same instant in the
\* order of their ids, whatever the order the index gave them in.
BatchTiesById ==
    loop.pc = "sending"
    => /\ \A i \in 1..Len(loop.new_chapters) :
            parse_iso(loop.new_chapters[i].readableAt) > parse_iso(batch.since)
       /\ \A i \in 1..(Len(loop.new_chapters) - 1) :
            \/ parse_iso(loop.new_chapters[i].readableAt)
                  < parse_iso(loop.new_chapters[i + 1].readableAt)
            \/ /\ parse_iso(loop.new_chapters[i].readableAt)
                     = parse_iso(loop.new_chapters[i + 1].readableAt)
               /\ LexLess(loop.new_chapters[i].id, loop.new_chapters[i + 1].id)

\* C15: a chapter sent for a series of a guild by an earlier run of the
\* process is not sent for it again.
NotSentAgainAfterRestart ==
    [][\A g \in GuildIds, sid \in SeriesIds :
          (/\ up /\ loop.pc = "sending" /\ <<g, sid>> = CurKey(Cur)
           /\ loop' # loop /\ <<g, sid>> \notin cycle'.failed /\ up')
          => <<g, sid, loop.new_chapters[loop.k].id>> \notin sent_before]_vars

\* the keys of a series dict: name, last_seen_ts, role_id
Fields(o) == [name |-> o.name, last_seen_ts |-> o.last_seen_ts, role_id |-> o.role_id]

Nothing(sid, since_ts) ==
    {items \in Responses(sid) :
        IF since_ts = NoTs THEN Usable(items) = {} ELSE Later(items, since_ts) = {}}

\* the step leaves the record of sid in g and the last batch as they are
Untouched(g, sid) ==
    /\ sid \in Tracked(g)'
    /\ Series(g, sid)' = Series(g, sid)
    /\ batch' = batch

\* C17: when the fetch of a series raises, or returns no usable entry for
\* a series without watermark, or no entry later than the watermark, the
\* record of the series stays as it is and nothing is sent for it; every
\* iteration lists all series the guild tracks and fetches each one listed.
NothingNewChangesNothing ==
    [][/\ \A g \in GuildIds, sid \in SeriesIds :
            (/\ up /\ loop.pc = "fetching" /\ <<g, sid>> = CurKey(Cur)
             /\ sid \in Tracked(g))
            => /\ <<g, sid>> \in cycle'.failed => Untouched(g, sid)
               /\ \A items \in Nothing(sid, loop.last_seen_ts) :
                     Untouched(g, sid) \/ ~FetchStep(items, "ok", "ok")
       /\ \A g \in GuildIds :
            (up /\ loop.pc = "resolving" /\ g = CurGuild(Cur) /\ loop'.pc = "fetching"
             /\ loop'.gi = loop.gi)
            => {<<g, sid>> : sid \in Tracked(g)} \subseteq cycle'.listed
       /\ (loop'.pc = "idle" /\ cycle' # NoCycle)
          => cycle'.listed \subseteq cycle'.fetched]_vars

\* C17 witness: in this iteration the fetch of s1 raised and the fetch of
\* s2, which has no watermark, returned nothing; an iteration before had
\* sent a chapter of s1
NothingFetchedTwice ==
    /\ loop.pc = "idle"
    /\ <<"g1", "s1">> \in cycle.failed
    /\ <<"g1", "s2">> \in cycle.fetched \ (cycle.failed \cup cycle.primed)
    /\ Seen("g1", "s2") = NoTs
    /\ Series("g1", "s1").delivered # {}
    /\ batch = NoBatch

\* the iteration has fetched every series it listed for guild g and has
\* left the guild
Finished(g) ==
    /\ up
    /\ g \in cycle.guilds
    /\ loop.pc = "idle" \/ GuildIndex(g) < loop.gi
    /\ {k \in cycle.listed : k[1] = g} \subseteq cycle.fetched

\* C18: once check_releases is through with a guild, bot_data.json is
\* complete and holds every series of the guild with the watermark it has
\* in memory, so that a process killed from then on loads them.
FinishedGuildsAreOnDisk ==
    \A g \in GuildIds :
        Finished(g)
        => /\ disk.kind = "file"
           /\ \A sid \in Tracked(g) :
                <<sid, DumpSeries(Series(g, sid))>> \in Stored(disk.doc, g)

\* C19: check_releases does nothing before the connection is ready (no
\* iteration, no fetch, no send, no watermark stored), and however many
\* ready events arrive there is one check_releases task at most.
OneLoopAfterReady ==
    /\ tasks <= 1
    /\ loop.pc # "stopped" => (ready /\ tasks = 1)
    /\ ~ready => (cycle = NoCycle /\ batch = NoBatch /\ loop = StoppedLoop /\ tasks = 0)
    /\ (up /\ ~ready) => (data = load_data(disk) /\ heap = load_heap(disk))

\* C19 witness: the process was killed and started again, a ready event
\* came, and the one task is in the middle of an iteration
LoopRunsAfterRestart ==
    /\ up /\ ready /\ tasks = 1
    /\ loop.pc = "sending"
    /\ sent_before # {}

\* C20: the chapter whose send raised, and the chapters of the batch after
\* it, are still later than the watermark stored for the series, so that
\* the next fetch that returns them keeps them.
FailedChapterStaysEligible ==
    [][\A g \in GuildIds, sid \in SeriesIds :
          (/\ up /\ loop.pc = "sending" /\ <<g, sid>> = CurKey(Cur)
           /\ <<g, sid>> \in cycle'.failed /\ sid \in Tracked(g)')
          => \A i \in loop.k..Len(loop.new_chapters) :
                Kept(loop.new_chapters[i], Seen(g, sid)')]_vars

====
